---------------------------- MODULE Spec2Model ----------------------------
(***************************************************************************)
(* Bitonic sort executors of src/include/bitonic.hpp:                      *)
(*   cpu_bitonic_sort  - the sequential network traversal on the host,     *)
(*   naive_bitonic     - one kernel dispatch per (stage, step) layer,      *)
(*   local_bitonic     - one dispatch of the fused local-memory kernel,    *)
(* together with gpu_bitonic::run_boilerplate.  One behaviour is one call  *)
(* of sort() on one executor.                                              *)
(***************************************************************************)
EXTENDS Integers, Sequences, FiniteSets, TLC

(***************************************************************************)
(* Bounds of the model.                                                    *)
(***************************************************************************)
\* sequences of every length from 0 to MaxLen are sorted element by element
MaxLen == 4
\* elements are drawn from 0..MaxVal
MaxVal == 2
\* lengths beyond the range of size_type: 2^SizeBits + (0..MaxWide)
MaxWide == 2

\* width of i_bitonic_sort<T>::size_type (unsigned)
SizeBits == 32

RECURSIVE Pow2(_)
Pow2(n) == IF n <= 0 THEN 1 ELSE 2 * Pow2(n - 1)

Values == 0..MaxVal

Min(a, b) == IF a < b THEN a ELSE b

(***************************************************************************)
(* Integer helpers of the source.                                          *)
(***************************************************************************)
\* A size_t length n is held as [hi, lo] with n = hi * 2^SizeBits + lo and
\* lo < 2^SizeBits.
Length(h, l) == [hi |-> h, lo |-> l]

\* size_type size = container.size(): the conversion of size_t to unsigned
\* keeps the low SizeBits bits
Narrow(n) == n.lo

\* std::popcount
RECURSIVE popcount(_)
popcount(n) == IF n = 0 THEN 0 ELSE (n % 2) + popcount(n \div 2)

\* std::countr_zero on size_type: the width for 0
RECURSIVE countr_zero(_)
countr_zero(n) ==
  IF n = 0 THEN SizeBits
  ELSE IF n % 2 = 1 THEN 0 ELSE 1 + countr_zero(n \div 2)

\* 1 << n for the non-negative shift counts the executors produce
Shl1(n) == Pow2(n)

\* the test all three operator() bodies throw on
BadSize(size) == popcount(size) /= 1 \/ size < 2

(***************************************************************************)
(* cpu_bitonic_sort: execute_step, one compare-swap layer on the host.     *)
(***************************************************************************)
\* mutant of calc_j: the partner of the flip layer is never mirrored
calc_j_noflip(stage, step, part_length, i) == i + part_length \div 2

calc_j(stage, step, part_length, i) ==
  IF stage = step THEN part_length - i - 1 ELSE i + part_length \div 2

\* if (first > second) std::swap(first, second)
SwapIfGreater(c, a, b) ==
  IF c[a] > c[b] THEN [c EXCEPT ![a] = c[b], ![b] = c[a]] ELSE c

RECURSIVE InnerLoop(_, _, _, _, _, _)
InnerLoop(c, stage, step, part_length, k, i) ==
  IF i < part_length \div 2
  THEN InnerLoop(SwapIfGreater(c, k * part_length + i,
                               k * part_length + calc_j(stage, step, part_length, i)),
                 stage, step, part_length, k, i + 1)
  ELSE c

RECURSIVE BlockLoop(_, _, _, _, _, _)
BlockLoop(c, size, stage, step, part_length, k) ==
  IF k < size \div part_length
  THEN BlockLoop(InnerLoop(c, stage, step, part_length, k, 0),
                 size, stage, step, part_length, k + 1)
  ELSE c

execute_step(c, size, stage, step) ==
  BlockLoop(c, size, stage, step, Shl1(step + 1), 0)

(***************************************************************************)
(* State of one sort() call.                                               *)
(***************************************************************************)
VARIABLES
  exec,          \* the executor sort() is called on: "cpu", "naive", "local"
  len,           \* container.size() as size_t
  input,         \* the tracked elements as they were when sort() was called
  container,     \* the tracked elements of the caller's sequence
  info,          \* the caller's profiling_info: its fields (as the clock the
                 \* value was taken from) and how often it has been written
  time,          \* the pointer argument: "unread", "null" or "given"
  m_local_size,  \* local_bitonic::m_local_size (0 on the other executors)
  pc,            \* position of the host inside operator()
  error,         \* the exception leaving operator(), "none" while there is none
  stage, temp, step,   \* loop variables of the traversal on the host
  layers,        \* cpu: the (stage, step) layers execute_step has run
  buffers,       \* number of cl::Buffer objects created by run_boilerplate
  buff,          \* contents of the device buffer
  queue,         \* m_queue: the dispatches enqueued, in order
  fin,           \* per dispatch, the work-items that have finished
  prev_event, first_event,  \* indices into queue, 0 for a default cl::Event
  token,         \* the event func returned to run_boilerplate
  copied_in,     \* number of host-to-device copies performed
  copied_back,   \* number of device-to-host copies performed
  waits,         \* number of times the host has blocked in event.wait()
  oob,           \* local kernel: a work-item has indexed outside its segment
  segment,       \* local kernel: the __local array of each work-group
  wphase         \* local kernel: per work-item, the phases it has completed

vars == <<exec, len, input, container, info, time, m_local_size, pc, error, stage,
          temp, step, layers, buffers, buff, queue, fin, prev_event,
          first_event, token, copied_in, copied_back, waits, oob, segment,
          wphase>>

hostLoop == <<stage, temp, step>>
deviceVars == <<buffers, buff, queue, fin, prev_event, first_event, token,
                copied_in, copied_back, waits, oob, segment, wphase>>
callVars == <<exec, len, input, info, time, m_local_size>>

Executors == {"cpu", "naive", "local"}

\* lengths a caller may pass: everything up to MaxLen, and lengths whose
\* conversion to size_type loses the high bits
Lengths == {Length(0, l) : l \in 0..MaxLen} \cup {Length(1, w) : w \in 0..MaxWide}

\* Elements the model tracks.  Beyond the range of size_type only the first
\* Narrow(len) elements are tracked: an executor reaches no other element
\* through an index below its narrowed size.
Tracked(n) == IF n.hi = 0 THEN n.lo ELSE Narrow(n)

N == Tracked(len)

\* the work-items of a dispatch that touch tracked elements (the global size
\* is container.size(); beyond the range of size_type the remaining
\* work-items touch untracked elements only)
Items == 0..(N - 1)

\* power-of-two segment sizes up to the tracked length
SegmentSizes(n) ==
  IF n < 2 THEN {2} ELSE {s \in 1..n : popcount(s) = 1}

\* the state at the entry of sort, but for the arguments of the call and of
\* the executor's constructor
Entry ==
  /\ input = container
  /\ info = [writes |-> 0, wall |-> "unset", pure |-> "unset"]
  /\ time = "unread"
  /\ pc = "entry"
  /\ error = "none"
  /\ stage = 0 /\ temp = 0 /\ step = 0
  /\ layers = <<>>
  /\ buffers = 0
  /\ buff = <<>>
  /\ queue = <<>>
  /\ fin = <<>>
  /\ prev_event = 0 /\ first_event = 0 /\ token = 0
  /\ copied_in = 0
  /\ copied_back = 0
  /\ waits = 0
  /\ oob = FALSE
  /\ segment = <<>>
  /\ wphase = <<>>

InitCall(e) ==
  /\ exec = e
  /\ len \in Lengths
  /\ container \in [0..(Tracked(len) - 1) -> Values]
  /\ m_local_size \in (IF e = "local" THEN SegmentSizes(Tracked(len)) ELSE {0})
  /\ Entry

Init == \E e \in Executors : InitCall(e)

\* throw std::runtime_error{"Only power-of-two sequences are supported"}
ThrowSize ==
  /\ pc' = "failed"
  /\ error' = "std::runtime_error"

\* mutant of WriteInfo: the record is written without the test of the pointer
WriteInfoUnchecked(wall, pure) ==
  \E t \in {"null", "given"} :
    /\ time' = t
    /\ info' = [writes |-> info.writes + 1, wall |-> wall, pure |-> pure]

\* if (time) { time->wall = ...; time->pure = ...; }: the one place that
\* reads the pointer argument, whose value (an input of the call) is drawn
\* here.  A duration is modelled by the clock it was measured on.
WriteInfo(wall, pure) ==
  \E t \in {"null", "given"} :
    /\ time' = t
    /\ info' = IF t = "given"
                THEN [writes |-> info.writes + 1, wall |-> wall, pure |-> pure]
                ELSE info

(***************************************************************************)
(* cpu_bitonic_sort::operator()                                            *)
(***************************************************************************)
CpuEntry ==
  /\ exec = "cpu" /\ pc = "entry"
  /\ IF BadSize(Narrow(len))
       THEN ThrowSize /\ UNCHANGED hostLoop
       ELSE /\ pc' = "loop"
            /\ error' = error
            /\ stage' = 0 /\ temp' = 0 /\ step' = 0
  /\ UNCHANGED <<callVars, container, layers, deviceVars>>

\* mutant of cpu_advance: step = stage - (temp++)
cpu_advance_postinc(s, t) ==
  IF t + 1 <= s
    THEN [stage |-> s, temp |-> t + 1, step |-> s - t]
    ELSE [stage |-> s + 1, temp |-> 0, step |-> s + 1]

\* The loop variables after one iteration of the inner for: the increment
\* step = stage - (++temp) and the test temp <= stage; when the test fails
\* (step has then wrapped and is not used) the outer for does ++stage and
\* restarts the inner for with temp = 0, step = stage.
cpu_advance(s, t) ==
  IF t + 1 <= s
    THEN [stage |-> s, temp |-> t + 1, step |-> s - (t + 1)]
    ELSE [stage |-> s + 1, temp |-> 0, step |-> s + 1]

\* one iteration of the inner for: execute_step(stage, step), then the
\* loop increments
CpuStep ==
  /\ exec = "cpu" /\ pc = "loop"
  /\ stage < countr_zero(Narrow(len))
  /\ container' = execute_step(container, Narrow(len), stage, step)
  /\ layers' = Append(layers, <<stage, step>>)
  /\ stage' = cpu_advance(stage, temp).stage
  /\ temp' = cpu_advance(stage, temp).temp
  /\ step' = cpu_advance(stage, temp).step
  /\ UNCHANGED <<callVars, pc, error, deviceVars>>

\* the outer for ends; if (info) info->wall = info->pure = ...
CpuReturn ==
  /\ exec = "cpu" /\ pc = "loop"
  /\ ~(stage < countr_zero(Narrow(len)))
  /\ WriteInfo("host clock", "host clock")
  /\ pc' = "done"
  /\ UNCHANGED <<exec, len, input, m_local_size, container, error, hostLoop,
                 layers, deviceVars>>

NextCpu == CpuEntry \/ CpuStep \/ CpuReturn

(***************************************************************************)
(* gpu_bitonic: the in-order command queue and run_boilerplate.            *)
(***************************************************************************)
\* a dispatch has completed when every work-item of it has finished
Complete(c) == fin[c] = Items

\* m_queue is created with QueueProperties::Profiling only, hence in order:
\* a dispatch runs once the dispatches enqueued before it have completed
InOrder(c) == \A d \in 1..(c - 1) : Complete(d)

\* the events of the wait list given in cl::EnqueueArgs have completed
DepsMet(c) == IF queue[c].dep = 0 THEN TRUE ELSE Complete(queue[c].dep)

CanRun(c) == InOrder(c) /\ DepsMet(c)

\* the size test at the top of both device operator() bodies
DeviceEntry ==
  /\ exec \in {"naive", "local"} /\ pc = "entry"
  /\ IF BadSize(Narrow(len))
       THEN ThrowSize
       ELSE pc' = "boilerplate" /\ error' = error
  /\ UNCHANGED <<callVars, container, hostLoop, layers, deviceVars>>

\* cl::Buffer buff = {...}; cl::copy(m_queue, container.begin(), container.end(), buff)
CopyIn ==
  /\ pc = "boilerplate"
  /\ buffers' = buffers + 1
  /\ buff' = container
  /\ copied_in' = copied_in + 1
  /\ pc' = "func"
  /\ stage' = 0 /\ step' = 0 /\ temp' = temp
  /\ UNCHANGED <<callVars, container, error, layers, queue, fin, prev_event,
                 first_event, token, copied_back, waits, oob, segment, wphase>>

\* mutant of Unwind: the buffer is copied back on the way out
UnwindCopyBack(what) ==
  /\ pc' = "failed"
  /\ error' = what
  /\ container' = IF buff = <<>> THEN container ELSE buff
  /\ copied_back' = copied_back + 1
  /\ buff' = <<>> /\ queue' = <<>> /\ fin' = <<>>
  /\ prev_event' = 0 /\ first_event' = 0 /\ token' = 0
  /\ segment' = <<>> /\ wphase' = <<>>
  /\ stage' = 0 /\ step' = 0 /\ temp' = 0
  /\ UNCHANGED <<callVars, layers, buffers, copied_in, waits, oob>>

\* A cl::Error leaves func or event.wait(), then run_boilerplate and
\* operator(), none of which catches.  Unwinding destroys buff and the
\* events; the device state goes with them.
Unwind(what) ==
  /\ pc' = "failed"
  /\ error' = what
  /\ buff' = <<>> /\ queue' = <<>> /\ fin' = <<>>
  /\ prev_event' = 0 /\ first_event' = 0 /\ token' = 0
  /\ segment' = <<>> /\ wphase' = <<>>
  /\ stage' = 0 /\ step' = 0 /\ temp' = 0
  /\ UNCHANGED <<callVars, container, layers, buffers, copied_in, copied_back,
                 waits, oob>>

\* m_functor(args, ...) throws
LaunchFails ==
  /\ pc = "func"
  /\ Unwind("cl::Error launch")

\* mutant of Wait: the host goes on without the event having completed
WaitNoBlock ==
  /\ pc = "wait"
  /\ token \in 1..Len(queue)
  /\ waits' = waits + 1
  /\ pc' = "copy"
  /\ UNCHANGED <<callVars, container, error, hostLoop, layers, buffers, buff,
                 queue, fin, prev_event, first_event, token, copied_in,
                 copied_back, oob, segment, wphase>>

\* event.wait() returns once the event func returned has completed
Wait ==
  /\ pc = "wait"
  /\ token \in 1..Len(queue)
  /\ Complete(token)
  /\ waits' = waits + 1
  /\ pc' = "copy"
  /\ UNCHANGED <<callVars, container, error, hostLoop, layers, buffers, buff,
                 queue, fin, prev_event, first_event, token, copied_in,
                 copied_back, oob, segment, wphase>>

\* event.wait() throws
WaitFails ==
  /\ pc = "wait"
  /\ Unwind("cl::Error wait")

\* cl::copy(m_queue, buff, container.begin(), container.end())
CopyBack ==
  /\ pc = "copy"
  /\ container' = buff
  /\ copied_back' = copied_back + 1
  /\ pc' = "profile"
  /\ UNCHANGED <<callVars, error, hostLoop, layers, buffers, buff, queue, fin,
                 prev_event, first_event, token, copied_in, waits, oob, segment,
                 wphase>>

\* the profiling queries and if (time) {...} that end both operator() bodies
DeviceReturn ==
  /\ pc = "profile"
  /\ WriteInfo("host clock", "device clock")
  /\ pc' = "done"
  /\ UNCHANGED <<exec, len, input, m_local_size, container, error, hostLoop,
                 layers, deviceVars>>

(***************************************************************************)
(* naive_bitonic                                                           *)
(***************************************************************************)
\* mutant of naive_kernel: the direction alternates with every block of
\* seq_len instead of every sorted run
naive_kernel_blockdir(b, i, kstep, kstage) ==
  LET seq_len == Shl1(kstage + 1)
      seq_n == i \div seq_len
      increasing == (seq_n % 2) = 0
      halflen == seq_len \div 2
      j == i + halflen
  IN IF i < (seq_len * seq_n) + halflen
       THEN IF \/ (b[i] > b[j]) /\ increasing
               \/ (b[i] < b[j]) /\ ~increasing
              THEN [b EXCEPT ![i] = b[j], ![j] = b[i]]
              ELSE b
       ELSE b

\* the shift count of power_of_two = 1 << (step - stage)
naive_exponent(kstep, kstage) == kstep - kstage

\* increasing = ((odd % 2) == 0)
naive_increasing(i, kstep, kstage) ==
  LET seq_len == Shl1(kstage + 1)
      power_of_two == Shl1(naive_exponent(kstep, kstage))
      seq_n == i \div seq_len
      odd == seq_n \div power_of_two
  IN (odd % 2) = 0

\* mutant of naive_acts: the upper half of a run compares as well
naive_acts_all(i, kstage) == i + (Shl1(kstage + 1) \div 2) < N

\* if (i < seq_len * seq_n + halflen): work-item i is in the lower half of
\* its run of seq_len
naive_acts(i, kstage) ==
  LET seq_len == Shl1(kstage + 1)
      seq_n == i \div seq_len
      halflen == seq_len \div 2
  IN i < (seq_len * seq_n) + halflen

\* j = i + halflen
naive_partner(i, kstage) == i + (Shl1(kstage + 1) \div 2)

\* the elements of buff work-item i reads or writes
naive_access(i, kstage) ==
  IF naive_acts(i, kstage) THEN {i, naive_partner(i, kstage)} ELSE {}

\* the kernel body for work-item i; the parameters carry the kernel's names
naive_kernel(b, i, kstep, kstage) ==
  LET increasing == naive_increasing(i, kstep, kstage)
      j == naive_partner(i, kstage)
  IN IF naive_acts(i, kstage)
       THEN IF \/ (b[i] > b[j]) /\ increasing
               \/ (b[i] < b[j]) /\ ~increasing
              THEN [b EXCEPT ![i] = b[j], ![j] = b[i]]
              ELSE b
       ELSE b

\* the wait list submit gives to cl::EnqueueArgs: none on the first
\* iteration, prev_event afterwards
first_iter == queue = <<>>

\* mutant of SubmitDep: every later dispatch waits on the first one
SubmitDepFirst == IF first_iter THEN 0 ELSE first_event

SubmitDep == IF first_iter THEN 0 ELSE prev_event

\* mutant of naive_advance: the inner for stops at step > 0
naive_advance_skip0(s, t) ==
  IF t - 1 > 0
    THEN [stage |-> s, step |-> t - 1]
    ELSE [stage |-> s + 1, step |-> s + 1]

\* the loop variables of func after one iteration: --step while step >= 0,
\* else ++stage and step = stage
naive_advance(s, t) ==
  IF t - 1 >= 0
    THEN [stage |-> s, step |-> t - 1]
    ELSE [stage |-> s + 1, step |-> s + 1]

\* one iteration of the loops of func: submit(buf, stage, step), which
\* enqueues m_functor(args, buf, stage, step), then the loop increments
NaiveSubmit ==
  /\ exec = "naive" /\ pc = "func"
  /\ stage < countr_zero(Narrow(len))
  /\ queue' = Append(queue, [args |-> <<stage, step>>, dep |-> SubmitDep])
  /\ fin' = Append(fin, {})
  /\ prev_event' = Len(queue) + 1
  /\ first_event' = IF first_iter THEN Len(queue) + 1 ELSE first_event
  /\ stage' = naive_advance(stage, step).stage
  /\ step' = naive_advance(stage, step).step
  /\ UNCHANGED <<callVars, container, pc, error, temp, layers, buffers, buff,
                 token, copied_in, copied_back,
                 waits, oob, segment, wphase>>

\* the loops end: return prev_event
NaiveFuncReturn ==
  /\ exec = "naive" /\ pc = "func"
  /\ ~(stage < countr_zero(Narrow(len)))
  /\ token' = prev_event
  /\ pc' = "wait"
  /\ UNCHANGED <<callVars, container, error, hostLoop, layers, buffers, buff,
                 queue, fin, prev_event, first_event, copied_in, copied_back,
                 waits, oob, segment,
                 wphase>>

\* mutant of KernelStep: the kernel's step is the host's variable of that name
KernelStepByName(c) == queue[c].args[2]

\* the functor binds the call arguments of m_functor(args, buf, stage, step)
\* by position to the kernel's parameters (buff, step, stage)
KernelStep(c) == queue[c].args[1]
KernelStage(c) == queue[c].args[2]

\* work-item i of dispatch c runs the kernel
NaiveWorkItem(c, i) ==
  /\ exec = "naive" /\ pc \in {"func", "wait"}
  /\ c \in 1..Len(queue)
  /\ CanRun(c)
  /\ i \in Items \ fin[c]
  /\ buff' = naive_kernel(buff, i, KernelStep(c), KernelStage(c))
  /\ fin' = [fin EXCEPT ![c] = @ \cup {i}]
  /\ UNCHANGED <<callVars, container, pc, error, hostLoop, layers, buffers,
                 queue, prev_event, first_event, token, copied_in, copied_back,
                 waits, oob, segment,
                 wphase>>

\* the device runs some work-item of some dispatch
NaiveRun == \E c \in 1..Len(queue) : \E i \in Items \ fin[c] : NaiveWorkItem(c, i)

NextNaive ==
  \/ DeviceEntry \/ CopyIn \/ LaunchFails \/ Wait \/ WaitFails \/ CopyBack
  \/ DeviceReturn
  \/ NaiveSubmit \/ NaiveFuncReturn \/ NaiveRun

(***************************************************************************)
(* local_bitonic                                                           *)
(***************************************************************************)
\* content of a __local slot no work-item has stored to yet
Undef == -1

\* std::min(nfst - 1, steps_n) on unsigned operands: for nfst = 0 the
\* difference wraps to 2^SizeBits - 1, above every steps_n
LocalStepEnd ==
  LET nfst == countr_zero(m_local_size)
      steps_n == countr_zero(Narrow(len))
  IN IF nfst = 0 THEN steps_n ELSE Min(nfst - 1, steps_n)

\* the (step, stage) pairs the two for loops of local_presort run through
RECURSIVE SubLayers(_, _, _)
SubLayers(kstep, kstage, step_end) ==
  IF ~(kstep < step_end) THEN <<>>
  ELSE IF kstage >= 0
    THEN <<<<kstep, kstage>>>> \o SubLayers(kstep, kstage - 1, step_end)
    ELSE SubLayers(kstep + 1, kstep + 1, step_end)

KernelSubLayers(c) == SubLayers(queue[c].args[1], queue[c].args[1], queue[c].args[2])

Group(global_i) == global_i \div m_local_size
LocalId(global_i) == global_i % m_local_size
Mates(global_i) == {m \in Items : Group(m) = Group(global_i)}

\* mutant of BarrierPassed: the kernel has no barriers
BarrierPassed_none(global_i, p) == TRUE

\* barrier(CLK_LOCAL_MEM_FENCE): a work-item passes its p-th barrier once
\* every work-item of its group has completed p phases
BarrierPassed(global_i, p) == \A m \in Mates(global_i) : wphase[m] >= p

\* the indices of __local segment [SEGMENT_SIZE]
Slots == 0..(m_local_size - 1)

\* the slots of segment the work-item with local id i reads or writes in one
\* iteration of the inner for
local_access(i, kstage) ==
  LET seq_len == Shl1(kstage + 1)
      seq_n == i \div seq_len
      halflen == seq_len \div 2
      j == i + halflen
  IN IF i < (seq_len * seq_n) + halflen THEN {i, j} ELSE {}

\* mutant of local_sublayer: every run is ordered ascending
local_sublayer_up(seg, global_i, i, kstep, kstage) ==
  LET seq_len == Shl1(kstage + 1)
      seq_n == i \div seq_len
      halflen == seq_len \div 2
      j == i + halflen
  IN IF i < (seq_len * seq_n) + halflen
       THEN IF seg[i] > seg[j]
              THEN [seg EXCEPT ![i] = seg[j], ![j] = seg[i]]
              ELSE seg
       ELSE seg

\* the body of the inner for on the group's segment seg, for one work-item
local_sublayer(seg, global_i, i, kstep, kstage) ==
  LET seq_len == Shl1(kstage + 1)
      power_of_two == Shl1(kstep - kstage)
      seq_n == i \div seq_len
      odd == (global_i \div seq_len) \div power_of_two
      increasing == (odd % 2) = 0
      halflen == seq_len \div 2
      j == i + halflen
  IN IF i < (seq_len * seq_n) + halflen
       THEN IF \/ (seg[i] > seg[j]) /\ increasing
               \/ (seg[i] < seg[j]) /\ ~increasing
              THEN [seg EXCEPT ![i] = seg[j], ![j] = seg[i]]
              ELSE seg
       ELSE seg

\* func: submit(buf), one dispatch of local_presort(buf, 0, min(nfst - 1,
\* steps_n)) with work-groups of m_local_size items; return prev_event
LocalSubmit ==
  /\ exec = "local" /\ pc = "func"
  /\ queue' = Append(queue, [args |-> <<0, LocalStepEnd>>, dep |-> 0])
  /\ fin' = Append(fin, {})
  /\ prev_event' = Len(queue) + 1
  /\ first_event' = Len(queue) + 1
  /\ token' = Len(queue) + 1
  /\ segment' = [g \in 0..((N \div m_local_size) - 1) |->
                   [l \in 0..(m_local_size - 1) |-> Undef]]
  /\ wphase' = [w \in Items |-> 0]
  /\ pc' = "wait"
  /\ UNCHANGED <<callVars, container, error, hostLoop, layers, buffers, buff,
                 copied_in, copied_back,
                 waits, oob>>

\* segment[local_i] = buff[global_i], up to the first barrier
LocalLoad(global_i) ==
  /\ exec = "local" /\ pc = "wait"
  /\ queue /= <<>> /\ CanRun(1)
  /\ global_i \in Items
  /\ wphase[global_i] = 0
  /\ segment' = [segment EXCEPT ![Group(global_i)][LocalId(global_i)] = buff[global_i]]
  /\ wphase' = [wphase EXCEPT ![global_i] = 1]
  /\ UNCHANGED <<callVars, container, pc, error, hostLoop, layers, buffers,
                 buff, queue, fin, prev_event, first_event, token, copied_in, copied_back,
                 waits, oob>>

\* mutant of LocalSubLayer: the barrier is inside the if, and a work-item
\* that skips the if never arrives at it
LocalSubLayerInsideIf(global_i) ==
  /\ exec = "local" /\ pc = "wait"
  /\ queue /= <<>> /\ CanRun(1)
  /\ global_i \in Items
  /\ wphase[global_i] \in 1..Len(KernelSubLayers(1))
  /\ BarrierPassed(global_i, wphase[global_i])
  /\ local_access(LocalId(global_i), KernelSubLayers(1)[wphase[global_i]][2])
       \subseteq Slots
  /\ local_access(LocalId(global_i), KernelSubLayers(1)[wphase[global_i]][2])
       # {}
  /\ LET sl == KernelSubLayers(1)[wphase[global_i]]
     IN segment' = [segment EXCEPT ![Group(global_i)] =
                      local_sublayer(@, global_i, LocalId(global_i), sl[1], sl[2])]
  /\ wphase' = [wphase EXCEPT ![global_i] = @ + 1]
  /\ UNCHANGED <<callVars, container, pc, error, hostLoop, layers, buffers,
                 buff, queue, fin, prev_event, first_event, token, copied_in,
                 copied_back, waits, oob>>

\* one iteration of the inner for, up to the barrier that ends it
LocalSubLayer(global_i) ==
  /\ exec = "local" /\ pc = "wait"
  /\ queue /= <<>> /\ CanRun(1)
  /\ global_i \in Items
  /\ wphase[global_i] \in 1..Len(KernelSubLayers(1))
  /\ BarrierPassed(global_i, wphase[global_i])
  /\ local_access(LocalId(global_i), KernelSubLayers(1)[wphase[global_i]][2])
       \subseteq Slots
  /\ LET sl == KernelSubLayers(1)[wphase[global_i]]
     IN segment' = [segment EXCEPT ![Group(global_i)] =
                      local_sublayer(@, global_i, LocalId(global_i), sl[1], sl[2])]
  /\ wphase' = [wphase EXCEPT ![global_i] = @ + 1]
  /\ UNCHANGED <<callVars, container, pc, error, hostLoop, layers, buffers,
                 buff, queue, fin, prev_event, first_event, token, copied_in, copied_back,
                 waits, oob>>

\* An iteration of the inner for whose segment[j] lies outside the array:
\* the behaviour of the kernel is undefined from there on.  The outcomes
\* are the dispatch completing with any contents of buff, the wait on it
\* failing (WaitFails), and the dispatch never completing (no further step).
LocalOutOfBounds(global_i) ==
  /\ exec = "local" /\ pc = "wait"
  /\ queue /= <<>> /\ CanRun(1)
  /\ global_i \in Items
  /\ wphase[global_i] \in 1..Len(KernelSubLayers(1))
  /\ BarrierPassed(global_i, wphase[global_i])
  /\ ~(local_access(LocalId(global_i), KernelSubLayers(1)[wphase[global_i]][2])
         \subseteq Slots)
  /\ oob' = TRUE
  /\ buff' \in [Items -> Values]
  /\ fin' = [fin EXCEPT ![1] = Items]
  /\ wphase' = [w \in Items |-> Len(KernelSubLayers(1)) + 2]
  /\ segment' = <<>>
  /\ UNCHANGED <<callVars, container, pc, error, hostLoop, layers, buffers,
                 queue, prev_event, first_event, token, copied_in, copied_back,
                 waits>>

\* buff[global_i] = segment[local_i] after the last barrier
LocalStore(global_i) ==
  /\ exec = "local" /\ pc = "wait"
  /\ queue /= <<>> /\ CanRun(1)
  /\ global_i \in Items
  /\ wphase[global_i] = Len(KernelSubLayers(1)) + 1
  /\ BarrierPassed(global_i, wphase[global_i])
  /\ buff' = [buff EXCEPT ![global_i] = segment[Group(global_i)][LocalId(global_i)]]
  /\ wphase' = [wphase EXCEPT ![global_i] = @ + 1]
  /\ fin' = [fin EXCEPT ![1] = @ \cup {global_i}]
  /\ UNCHANGED <<callVars, container, pc, error, hostLoop, layers, buffers,
                 queue, prev_event, first_event, token, copied_in, copied_back,
                 waits, oob, segment>>

\* the device runs some work-item up to its next barrier
LocalRunLoad == \E i \in Items : LocalLoad(i)
LocalRunSubLayer == \E i \in Items : LocalSubLayer(i)
LocalRunStore == \E i \in Items : LocalStore(i)
LocalRunOutOfBounds == \E i \in Items : LocalOutOfBounds(i)

NextLocal ==
  \/ DeviceEntry \/ CopyIn \/ LaunchFails \/ Wait \/ WaitFails \/ CopyBack
  \/ DeviceReturn
  \/ LocalSubmit \/ LocalRunLoad \/ LocalRunSubLayer \/ LocalRunStore
  \/ LocalRunOutOfBounds

(***************************************************************************)
(* Specifications: a call on any executor, and on each executor alone.     *)
(***************************************************************************)
Next ==
  \/ CpuEntry \/ CpuStep \/ CpuReturn
  \/ DeviceEntry \/ CopyIn \/ LaunchFails \/ Wait \/ WaitFails \/ CopyBack
  \/ DeviceReturn
  \/ NaiveSubmit \/ NaiveFuncReturn \/ NaiveRun
  \/ LocalSubmit \/ LocalRunLoad \/ LocalRunSubLayer \/ LocalRunStore
  \/ LocalRunOutOfBounds

Spec == Init /\ [][Next]_vars

InitCpu == InitCall("cpu")
SpecCpu == InitCpu /\ [][NextCpu]_vars

InitNaive == InitCall("naive")
SpecNaive == InitNaive /\ [][NextNaive]_vars

InitLocal == InitCall("local")
SpecLocal == InitLocal /\ [][NextLocal]_vars


\* The local executor on longer sequences: the powers of two above MaxLen up
\* to twice MaxLen, of elements 0 and 1, with more than one work-group and
\* work-groups of at least four work-items (so that the kernel runs at least
\* one outer iteration and no index leaves the segment).
SplitLengths ==
  {Length(0, l) : l \in {k \in (MaxLen + 1)..(2 * MaxLen) : popcount(k) = 1}}

InitSplit ==
  /\ exec = "local"
  /\ len \in SplitLengths
  /\ container \in [0..(Tracked(len) - 1) -> {0, 1}]
  /\ m_local_size \in {s \in SegmentSizes(Tracked(len)) : 4 <= s /\ s < Tracked(len)}
  /\ Entry

NextSplit ==
  \/ DeviceEntry \/ CopyIn \/ LaunchFails \/ Wait \/ WaitFails \/ CopyBack
  \/ DeviceReturn
  \/ LocalSubmit \/ LocalRunLoad \/ LocalRunSubLayer \/ LocalRunStore

SpecSplit == InitSplit /\ [][NextSplit]_vars

\* The device keeps running the work-items of an enqueued kernel: a
\* work-item that can take its next step (it is at no barrier, or all of its
\* work-group have arrived at the barrier) does so eventually.  Nothing is
\* assumed of the host's steps.  The segment sizes are those from 2 on, for
\* which no index leaves the segment.
DeviceFairness ==
  /\ WF_vars(LocalRunLoad)
  /\ WF_vars(LocalRunSubLayer)
  /\ WF_vars(LocalRunStore)

InitLocalFair == InitLocal /\ m_local_size >= 2

SpecLocalFair == InitLocalFair /\ [][NextSplit]_vars /\ DeviceFairness

(***************************************************************************)
(* The sequential traversal as a function of the input: the loops of       *)
(* cpu_bitonic_sort::operator() run to their end.                          *)
(***************************************************************************)
RECURSIVE cpu_traverse(_, _, _, _)
cpu_traverse(c, size, s, t) ==
  IF ~(s < countr_zero(size)) THEN c
  ELSE IF t <= s
    THEN cpu_traverse(execute_step(c, size, s, s - t), size, s, t + 1)
    ELSE cpu_traverse(c, size, s + 1, 0)

cpu_sort(c, size) == cpu_traverse(c, size, 0, 0)

\* The naive executor as a function of the buffer.  naive_run: the work-items
\* in items run the kernel with parameters (kstep, kstage), in index order.
RECURSIVE naive_run(_, _, _, _)
naive_run(b, items, kstep, kstage) ==
  IF items = {} THEN b
  ELSE LET i == CHOOSE x \in items : \A y \in items : x <= y
       IN naive_run(naive_kernel(b, i, kstep, kstage), items \ {i}, kstep, kstage)

\* the dispatches of func from (s, t) on, each run to completion, for the
\* outer stages below stages
RECURSIVE naive_traverse(_, _, _, _)
naive_traverse(b, stages, s, t) ==
  IF ~(s < stages) THEN b
  ELSE naive_traverse(naive_run(b, DOMAIN b, s, t), stages,
                      naive_advance(s, t).stage, naive_advance(s, t).step)

\* The local kernel as a function of one work-group's segment.  local_run:
\* the work-items with the local ids in ids run one iteration of the inner
\* for, in index order.
RECURSIVE local_run(_, _, _, _, _)
local_run(seg, g, ids, kstep, kstage) ==
  IF ids = {} THEN seg
  ELSE LET i == CHOOSE x \in ids : \A y \in ids : x <= y
       IN local_run(local_sublayer(seg, (g * m_local_size) + i, i, kstep, kstage),
                    g, ids \ {i}, kstep, kstage)

\* iterations n..last of the two for loops, each by the whole work-group
RECURSIVE local_group(_, _, _, _, _)
local_group(seg, g, sls, n, last) ==
  IF n > last THEN seg
  ELSE local_group(local_run(seg, g, Slots, sls[n][1], sls[n][2]),
                   g, sls, n + 1, last)

\* segment[local_i] = buff[global_i] by every work-item of group g
local_loaded(b, g) == [l \in Slots |-> b[(g * m_local_size) + l]]

\* the (stage, step) arguments of the execute_step calls, in call order
RECURSIVE cpu_schedule(_, _, _)
cpu_schedule(stages, s, t) ==
  IF ~(s < stages) THEN <<>>
  ELSE IF t <= s
    THEN <<<<s, s - t>>>> \o cpu_schedule(stages, s, t + 1)
    ELSE cpu_schedule(stages, s + 1, 0)

(***************************************************************************)
(* Vocabulary of the properties.                                           *)
(***************************************************************************)
\* the length itself, not its narrowed value, is a power of two >= 2
ValidLength(n) ==
  /\ popcount(n.hi) + popcount(n.lo) = 1
  /\ n.hi > 0 \/ n.lo >= 2

Sorted(c) == \A i \in DOMAIN c : \A j \in DOMAIN c : i < j => c[i] <= c[j]

Count(c, v) == Cardinality({i \in DOMAIN c : c[i] = v})
Permutation(a, b) ==
  /\ DOMAIN a = DOMAIN b
  /\ \A v \in Values : Count(a, v) = Count(b, v)

\* log2 of the size the executor works with
Stages == countr_zero(Narrow(len))

\* the layers (s, t), 0 <= t <= s < k, stage ascending and step descending
RECURSIVE LayerOrder(_, _)
LayerOrder(s, k) ==
  IF s >= k THEN <<>>
  ELSE [n \in 1..(s + 1) |-> <<s, s + 1 - n>>] \o LayerOrder(s + 1, k)

IsPrefix(a, b) == Len(a) <= Len(b) /\ \A n \in 1..Len(a) : a[n] = b[n]

\* the (stage, step) pairs of the dispatches enqueued so far
Dispatched == [n \in 1..Len(queue) |-> queue[n].args]

ValidSegment == popcount(m_local_size) = 1 /\ m_local_size >= 2 /\ m_local_size <= N

(***************************************************************************)
(* Properties.                                                             *)
(***************************************************************************)
\* C1: when the sequential executor returns from a sequence whose length is
\* a power of two >= 2, the sequence is in non-descending order and is a
\* permutation of the input.
C1_CpuSorts ==
  (exec = "cpu" /\ pc = "done" /\ ValidLength(len))
    => Sorted(container) /\ Permutation(container, input)

\* a call that returned after reordering an unsorted sequence of four
C1_Witness ==
  /\ exec = "cpu" /\ pc = "done" /\ len = Length(0, 4)
  /\ ~Sorted(input) /\ Sorted(container)
  /\ Len(layers) = 3

\* C2: when the naive executor returns from a sequence whose length is a
\* power of two >= 2, whatever the order in which the work-items of each
\* layer ran, the sequence is sorted and a permutation of the input.
C2_NaiveSorts ==
  (exec = "naive" /\ pc = "done" /\ ValidLength(len))
    => Sorted(container) /\ Permutation(container, input)

C2_Witness ==
  /\ exec = "naive" /\ pc = "done" /\ len = Length(0, 4)
  /\ ~Sorted(input) /\ Sorted(container)
  /\ Len(queue) = 3 /\ copied_back = 1

\* C3: when the local-segment executor returns normally from a sequence
\* whose length is a power of two >= 2, with a power-of-two segment size
\* between 2 and the length, the sequence is sorted and a permutation of the
\* input.
C3_LocalSorts ==
  (exec = "local" /\ pc = "done" /\ ValidLength(len) /\ ValidSegment)
    => Sorted(container) /\ Permutation(container, input)

\* C4: a call on a sequence whose length is not a power of two, or is below
\* 2, ends in the size error, and at no point of it has the sequence
\* changed, a buffer been created, a kernel been dispatched or the
\* profiling record been written.
C4_InvalidLengthRejected ==
  ~ValidLength(len) =>
    /\ pc \in {"entry", "failed"}
    /\ pc = "failed" => error = "std::runtime_error"
    /\ container = input
    /\ buffers = 0 /\ buff = <<>> /\ queue = <<>>
    /\ info.writes = 0

\* C4, for lengths within the range of size_type: the same statement holds
\* of every invalid length that the conversion to size_type leaves intact.
C4_InvalidNarrowLengthRejected ==
  (len.hi = 0 /\ ~ValidLength(len)) =>
    /\ pc \in {"entry", "failed"}
    /\ pc = "failed" => error = "std::runtime_error"
    /\ container = input
    /\ buffers = 0 /\ buff = <<>> /\ queue = <<>>
    /\ info.writes = 0

\* C5: whenever an executor returns from a sequence of valid length (and,
\* for the local executor, valid segment size), its output is the output of
\* the sequential traversal on the same input.
C5_ExecutorsAgree ==
  (pc = "done" /\ ValidLength(len) /\ (exec = "local" => ValidSegment))
    => container = cpu_sort(input, Narrow(len))

\* C5, for the sequential and the naive executor alone.
C5_CpuNaiveAgree ==
  (exec \in {"cpu", "naive"} /\ pc = "done" /\ ValidLength(len))
    => container = cpu_sort(input, Narrow(len))

\* C6: an executor that returns from an input of valid length that was
\* already in non-descending order leaves it element for element as it was.
C6_SortedInputUnchanged ==
  (pc = "done" /\ ValidLength(len) /\ (exec = "local" => ValidSegment)
     /\ Sorted(input))
    => container = input

\* C6, for the sequential and the naive executor alone.
C6_CpuNaiveSortedInputUnchanged ==
  (exec \in {"cpu", "naive"} /\ pc = "done" /\ ValidLength(len) /\ Sorted(input))
    => container = input

\* C7: when the launch routine or the wait on its token has failed, the
\* call has ended with that failure, no device-to-host copy has been made,
\* and the profiling record has been neither consulted nor written.
C7_DeviceFailurePropagates ==
  error \in {"cl::Error launch", "cl::Error wait"} =>
    /\ pc = "failed"
    /\ copied_back = 0
    /\ container = input
    /\ info.writes = 0 /\ time = "unread"

\* a failed wait, after the buffer had been created and filled
C7_Witness ==
  /\ exec \in {"naive", "local"}
  /\ pc = "failed" /\ error = "cl::Error wait"
  /\ buffers = 1 /\ copied_back = 0

\* C8: the layers the sequential executor has run are at every moment an
\* initial part of the order (stage ascending, step from stage down to 0),
\* and when it returns they are that whole order, k(k+1)/2 layers for
\* N = 2^k.
C8_CpuSchedule ==
  (exec = "cpu" /\ pc \in {"loop", "done"}) =>
    /\ IsPrefix(layers, LayerOrder(0, Stages))
    /\ pc = "done" =>
         /\ layers = LayerOrder(0, Stages)
         /\ 2 * Len(layers) = Stages * (Stages + 1)

C8_Witness ==
  /\ exec = "cpu" /\ pc = "done" /\ len = Length(0, 4)
  /\ layers = <<<<0, 0>>, <<1, 1>>, <<1, 0>>>>

\* C9: the (stage, step) pairs the naive executor has dispatched are at
\* every moment an initial part of the sequential executor's layer sequence,
\* one dispatch per pair, and once func has returned they are that whole
\* sequence, k(k+1)/2 dispatches.
C9_NaiveSchedule ==
  (exec = "naive" /\ pc \in {"func", "wait", "copy", "profile", "done"}) =>
    /\ IsPrefix(Dispatched, cpu_schedule(Stages, 0, 0))
    /\ pc /= "func" =>
         /\ Dispatched = cpu_schedule(Stages, 0, 0)
         /\ Dispatched = LayerOrder(0, Stages)
         /\ 2 * Len(queue) = Stages * (Stages + 1)

C9_Witness ==
  /\ exec = "naive" /\ pc = "wait" /\ len = Length(0, 4)
  /\ Dispatched = <<<<0, 0>>, <<1, 1>>, <<1, 0>>>>

\* C10: every dispatch but the first waits on the dispatch enqueued just
\* before it; a dispatch of which some work-item has run is preceded only
\* by completed dispatches; the token handed to run_boilerplate is the last
\* dispatch, and its completion means every dispatch has completed.
C10_NaiveChain ==
  exec = "naive" =>
    /\ \A c \in 1..Len(queue) : queue[c].dep = c - 1
    /\ \A c \in 1..Len(queue) :
         fin[c] /= {} => \A d \in 1..(c - 1) : fin[d] = Items
    /\ pc \in {"wait", "copy", "profile", "done"} =>
         /\ token = Len(queue) /\ token >= 1
         /\ fin[token] = Items => \A c \in 1..Len(queue) : fin[c] = Items

\* the second layer is running while the host has yet to submit the third
C10_Witness ==
  /\ exec = "naive" /\ pc = "func" /\ Len(queue) = 2
  /\ fin[1] = Items /\ fin[2] /= {} /\ fin[2] /= Items


\* every dispatch enqueued so far has completed
AllComplete == \A c \in 1..Len(queue) : Complete(c)

\* C11: in a device sort there is one host-to-device copy, made before the
\* first dispatch is submitted, and one device-to-host copy, made only after
\* the host's single wait has returned on the completed final event; while
\* dispatches are being submitted or run the host sequence is not touched.
C11_PipelineOrder ==
  exec \in {"naive", "local"} =>
    /\ copied_in \in 0..1 /\ copied_back \in 0..1 /\ waits \in 0..1
    /\ copied_in = buffers
    /\ pc \in {"entry", "boilerplate"} => copied_in = 0
    /\ queue # <<>> => copied_in = 1
    /\ (pc = "func" /\ queue = <<>>) => buff = input
    /\ pc \in {"func", "wait"} =>
         waits = 0 /\ copied_back = 0 /\ container = input
    /\ waits = 1 =>
         /\ pc \in {"copy", "profile", "done"}
         /\ token = Len(queue) /\ token >= 1 /\ AllComplete
    /\ copied_back = 1 => waits = 1 /\ pc \in {"profile", "done"}
    /\ pc = "done" => copied_in = 1 /\ copied_back = 1 /\ waits = 1

C11_Witness ==
  /\ exec = "naive" /\ pc = "done" /\ Len(queue) = 3
  /\ copied_in = 1 /\ copied_back = 1 /\ waits = 1
  /\ container # input

\* C12: the local executor enqueues one dispatch, and the end of the range
\* of outer stages it passes to the kernel is min(log2(S), log2(N)).
C12_LocalRange ==
  (exec = "local" /\ queue # <<>>) =>
    /\ Len(queue) = 1
    /\ queue[1].args[1] = 0
    /\ queue[1].args[2] =
         Min(countr_zero(m_local_size), countr_zero(Narrow(len)))

\* the number of iterations of the kernel's outer for in dispatch c
OuterIterations(c) ==
  IF queue[c].args[2] > queue[c].args[1]
    THEN queue[c].args[2] - queue[c].args[1] ELSE 0

\* the aligned block of 2^m elements numbered blk is sorted, ascending when
\* blk is even and descending when it is odd
BlockSorted(b, m, blk) ==
  \A i \in DOMAIN b : \A j \in DOMAIN b :
    (i \div Pow2(m) = blk /\ j \div Pow2(m) = blk /\ i < j) =>
      IF blk % 2 = 0 THEN b[i] <= b[j] ELSE b[i] >= b[j]

\* C13: with a segment size 2 <= S < N, once the local kernel has completed
\* its m outer iterations the buffer is what the naive executor's dispatches
\* for the outer stages 0..m-1 make of the same input, and every aligned
\* block of 2^m elements is sorted, ascending for an even block number and
\* descending for an odd one.
C13_GlobalDirectionSplit ==
  (/\ exec = "local" /\ ValidLength(len) /\ ValidSegment /\ m_local_size < N
   /\ queue # <<>> /\ pc # "failed") =>
    LET m == OuterIterations(1)
    IN \A expected \in {naive_traverse(input, m, 0, 0)} :
         /\ \A w \in Items :
              wphase[w] >= Len(KernelSubLayers(1)) + 2 => buff[w] = expected[w]
         /\ Complete(1) =>
              /\ buff = expected
              /\ \A blk \in 0..((N \div Pow2(m)) - 1) :
                   BlockSorted(buff, m, blk)

C13_Witness ==
  /\ exec = "local" /\ pc = "done" /\ N = 8 /\ m_local_size = 4
  /\ OuterIterations(1) = 1
  /\ input = [i \in 0..7 |-> IF i \in {0, 3, 4, 7} THEN 1 ELSE 0]
  /\ container = [i \in 0..7 |-> IF i \in {1, 2, 5, 6} THEN 1 ELSE 0]

\* the buffer made from b by the work-items that have finished, dispatch by
\* dispatch from c on, each dispatch's work-items taken in index order
RECURSIVE FinishedInIndexOrder(_, _)
FinishedInIndexOrder(b, c) ==
  IF c > Len(queue) THEN b
  ELSE FinishedInIndexOrder(
         naive_run(b, fin[c], KernelStep(c), KernelStage(c)), c + 1)

\* C14: in every dispatched layer of the naive executor no element of the
\* buffer is accessed by two work-items (a lower-half work-item i accesses i
\* and i + halflen, an upper-half one nothing), and the buffer is determined
\* by which work-items have finished, whatever the order they ran in.
C14_NaiveRaceFree ==
  (exec = "naive" /\ queue # <<>>) =>
    /\ \A c \in 1..Len(queue) : \A i \in Items :
         /\ naive_access(i, KernelStage(c)) \subseteq
              {i, i + (Pow2(KernelStage(c) + 1) \div 2)}
         /\ (i % Pow2(KernelStage(c) + 1) >= Pow2(KernelStage(c) + 1) \div 2)
              => naive_access(i, KernelStage(c)) = {}
         /\ \A k \in Items \ {i} :
              naive_access(i, KernelStage(c))
                \cap naive_access(k, KernelStage(c)) = {}
    /\ buff = FinishedInIndexOrder(input, 1)

C14_Witness ==
  /\ exec = "naive" /\ N = 4 /\ Len(queue) >= 2
  /\ fin[1] = Items /\ fin[2] = {1} /\ KernelStage(2) = 1
  /\ buff # input

\* the work-items of work-group g, and the fewest phases any has completed
GroupItems(g) == {w \in Items : Group(w) = g}
GroupPhase(g) ==
  CHOOSE p \in {wphase[w] : w \in GroupItems(g)} :
    \A w \in GroupItems(g) : p <= wphase[w]

\* the segment of group g as the phases completed determine it: the slots
\* loaded so far, or the sub-layers every work-item has completed followed
\* by the current one for the work-items that are ahead, in index order
SegmentByPhases(g) ==
  LET sls == KernelSubLayers(1)
      p == GroupPhase(g)
      ahead == {LocalId(w) : w \in {x \in GroupItems(g) : wphase[x] > p}}
      base == local_group(local_loaded(input, g), g, sls, 1,
                          Min(p - 1, Len(sls)))
  IN IF p = 0
       THEN [l \in Slots |-> IF l \in ahead THEN local_loaded(input, g)[l]
                                           ELSE Undef]
       ELSE IF p <= Len(sls)
         THEN local_run(base, g, ahead, sls[p][1], sls[p][2])
         ELSE base

C16_ProfilingRecord ==
  /\ info.writes \in 0..1
  /\ pc # "done" => time = "unread" /\ info.writes = 0
  /\ pc = "done" => time \in {"null", "given"}
  /\ (pc = "done" /\ time = "given") => info.writes = 1
  /\ (pc = "done" /\ time = "null") =>
       info = [writes |-> 0, wall |-> "unset", pure |-> "unset"]
  /\ (pc = "done" /\ exec = "cpu") =>
       /\ stage = countr_zero(Narrow(len))
       /\ container = cpu_sort(input, Narrow(len))
       /\ info.wall = info.pure
  /\ (pc = "done" /\ exec \in {"naive", "local"}) =>
       /\ copied_back = 1 /\ waits = 1 /\ AllComplete
       /\ container = buff
       /\ info.writes = 1 => info.wall = "host clock" /\ info.pure = "device clock"

C16_Witness ==
  /\ exec = "cpu" /\ pc = "done" /\ time = "given" /\ N = 4
  /\ info = [writes |-> 1, wall |-> "host clock", pure |-> "host clock"]
  /\ container # input

\* C17: for every dispatch submit(buf, stage = s, step = t) of the naive
\* executor, 0 <= t <= s, the kernel's shift count step - stage is not
\* negative, work-item i accesses i and i + 2^t only, and its direction is
\* increasing exactly when floor(i / 2^(s+1)) is even.
C17_NaiveIndexArithmetic ==
  exec = "naive" =>
    \A c \in 1..Len(queue) :
      LET s == queue[c].args[1]
          t == queue[c].args[2]
      IN /\ 0 <= t /\ t <= s
         /\ naive_exponent(KernelStep(c), KernelStage(c)) >= 0
         /\ \A i \in Items :
              /\ naive_access(i, KernelStage(c)) \subseteq {i, i + Pow2(t)}
              /\ naive_acts(i, KernelStage(c)) =>
                   naive_partner(i, KernelStage(c)) = i + Pow2(t)
              /\ naive_increasing(i, KernelStep(c), KernelStage(c))
                   <=> ((i \div Pow2(s + 1)) % 2 = 0)

C17_Witness ==
  /\ exec = "naive" /\ N = 4 /\ Len(queue) = 3
  /\ queue[2].args = <<1, 1>> /\ queue[3].args = <<1, 0>>
  /\ fin[2] = Items /\ 2 \in fin[3]
  /\ ~naive_increasing(2, KernelStep(1), KernelStage(1))
  /\ naive_increasing(2, KernelStep(3), KernelStage(3))

\* every buffer index a work-item of a dispatched naive layer accesses is
\* below N
NaiveInBounds ==
  \A c \in 1..Len(queue) : \A i \in Items :
    naive_access(i, KernelStage(c)) \subseteq Items

\* every segment index a work-item accesses in a sub-layer of the dispatched
\* local kernel is below S, and no access outside the segment has happened
LocalInBounds ==
  /\ ~oob
  /\ \A n \in 1..Len(KernelSubLayers(1)) : \A i \in Slots :
       local_access(i, KernelSubLayers(1)[n][2]) \subseteq Slots

\* C18: for a power-of-two length N >= 2 and a power-of-two segment size
\* 1 <= S <= N, every buffer index the naive kernel accesses is in [0, N) and
\* every segment index the local kernel accesses is in [0, S).
C18_IndexBounds ==
  (ValidLength(len) /\ queue # <<>>) =>
    /\ exec = "naive" => NaiveInBounds
    /\ (/\ exec = "local" /\ popcount(m_local_size) = 1
        /\ 1 <= m_local_size /\ m_local_size <= N) => LocalInBounds

\* the same for segment sizes from 2 on
C18_IndexBoundsFromTwo ==
  (ValidLength(len) /\ queue # <<>>) =>
    /\ exec = "naive" => NaiveInBounds
    /\ (exec = "local" /\ ValidSegment) => LocalInBounds

\* the local kernel has been dispatched and every work-item has finished
LocalCompleted ==
  IF exec = "local" /\ queue # <<>> THEN Complete(1) ELSE FALSE

\* the local kernel has been dispatched and has not completed
LocalRunning ==
  exec = "local" /\ ValidSegment /\ pc = "wait" /\ ~LocalCompleted

\* every work-item that has finished has completed the load, every
\* sub-layer of the dispatch and the store, each but the last ended by a
\* barrier
BarrierCount ==
  IF exec = "local" /\ ValidSegment /\ queue # <<>> /\ pc # "failed"
    THEN \A w \in Items :
           /\ wphase[w] <= Len(KernelSubLayers(1)) + 2
           /\ w \in fin[1] <=> wphase[w] = Len(KernelSubLayers(1)) + 2
    ELSE TRUE

\* C19: every work-item of the local kernel passes the same number of
\* barriers, one after the load and one per sub-layer, fixed by the
\* dispatch and not by its index or the data; and a dispatched kernel
\* completes, every work-item having written its slot back (unless the call
\* has failed meanwhile).
C19_BarrierUniform ==
  /\ []BarrierCount
  /\ LocalRunning ~> (LocalCompleted \/ pc = "failed")

C19_Witness ==
  /\ exec = "local" /\ N = 4 /\ m_local_size = 4 /\ pc = "wait"
  /\ Len(KernelSubLayers(1)) = 1
  /\ Complete(1) /\ \A w \in Items : wphase[w] = 3
  /\ buff # input

\* the length itself, not its conversion to size_type, is a power of two
LengthIsPowerOfTwo == popcount(len.hi) + popcount(len.lo) = 1

\* C20: the size test is made on the length converted to size_type, and it
\* rejects every length that is not a power of two, also the lengths of
\* 2^SizeBits and more.
C20_NarrowedSizeCheck ==
  pc # "entry" =>
    /\ error = "std::runtime_error" <=> BadSize(Narrow(len))
    /\ ~LengthIsPowerOfTwo => (pc = "failed" /\ error = "std::runtime_error")

\* the half of it that is about the converted length
C20_TestOnNarrowedLength ==
  pc # "entry" => (error = "std::runtime_error" <=> BadSize(Narrow(len)))

=============================================================================
